---------------------------- MODULE Spec2Model ----------------------------
(***************************************************************************)
(* Model of the NestJS usage finder: the LRU IndexCache, the module graph  *)
(* builder, the analyzer facade (lazy initialisation, cached queries,      *)
(* invalidation and rebuild) and the debouncing file watcher.              *)
(*                                                                         *)
(* Strings are modelled as sequences of tokens, so that startsWith and     *)
(* the construction of cache keys are computed and not assumed.            *)
(***************************************************************************)
EXTENDS Integers, Sequences, FiniteSets, TLC

VARIABLES
    cache,      \* IndexCache.cache: the Map, as the sequence of its entries in iteration order
    maxSize,    \* IndexCache.maxSize
    hung,       \* TRUE once a call never returns (the single thread is stuck in a loop)
    last,       \* the call that was made last, with its argument and its result
    recency,    \* history: the stored keys, ordered by their latest insertion or get hit
    inserted,   \* history: the stored keys, ordered by their insertion alone
    live,       \* history: for every key, the value of its latest set that is still stored
    ws,         \* the workspace: its .ts files, and what each module file declares
    moduleGraph,    \* ModuleGraphBuilder.moduleGraph: the Map, as the sequence of its nodes
    isInitialized,  \* NestJSAnalyzer.isInitialized
    initPromise,    \* NestJSAnalyzer.initPromise: "null", or the state of the promise
    builds,         \* the buildGraph calls: 0 is that of doInitialize, the others those of rebuildModuleGraph
    queries,        \* the findUsages and findDefinition calls, in the order they were made
    debounceTimers, \* FileWatcher.debounceTimers: the paths with a pending timer
    counts,         \* history: how many builds doInitialize started, how many changes were notified
    search,         \* the UsageFinder.findUsages call under way: its inputs, its position, its results
    watcher,        \* the FileWatcher on its own: its timers, the clock, what it has processed
    config          \* the settings nestjsUsage.* of the editor

cacheVars == <<cache, maxSize, hung, recency, inserted, live>>

graphVars == <<ws, moduleGraph>>

analyzerVars == <<isInitialized, initPromise, builds, queries, debounceTimers, counts>>

sideVars == <<search, watcher, config>>

vars == <<cacheVars, last, graphVars, analyzerVars, sideVars>>

-----------------------------------------------------------------------------
(* Bounds *)

MaxCap == 3         \* largest capacity tried
MaxQueries == 2     \* queries made in one run
MaxRebuilds == 1    \* rebuildModuleGraph calls in one run
MaxChanges == 2     \* file changes notified in one run
MaxEvents == 3      \* events the watcher alone reports in one run
MaxTicks == 8       \* ticks of the clock of the watcher alone

-----------------------------------------------------------------------------
(* Strings *)

\* String.prototype.startsWith
StartsWith(s, prefix) ==
    /\ Len(prefix) <= Len(s)
    /\ SubSeq(s, 1, Len(prefix)) = prefix

\* JavaScript truthiness of a string: only the empty string is falsy
Truthy(s) == s # <<>>

Null == "null"

-----------------------------------------------------------------------------
(* The Map of IndexCache: entries in insertion order, keys unique *)

MapKeys(m) == {m[i].key : i \in 1..Len(m)}

MapHas(m, k) == k \in MapKeys(m)

MapIndex(m, k) == CHOOSE i \in 1..Len(m) : m[i].key = k

MapGet(m, k) == m[MapIndex(m, k)].value

\* Map.prototype.delete: the other entries keep their order
MapDelete(m, k) == SelectSeq(m, LAMBDA e : e.key # k)

\* Map.prototype.set: an existing key keeps its position, a new key goes last
MapSet(m, k, v) ==
    IF MapHas(m, k)
    THEN [m EXCEPT ![MapIndex(m, k)] = [key |-> k, value |-> v]]
    ELSE Append(m, [key |-> k, value |-> v])

MapKeyOrder(m) == [i \in 1..Len(m) |-> m[i].key]

-----------------------------------------------------------------------------
(* IndexCache *)

\* get that returns without moving the entry
IndexCache_get_NoTouch(m, k) ==
    IF ~MapHas(m, k)
    THEN [ret |-> Null, cache |-> m]
    ELSE [ret |-> MapGet(m, k), cache |-> m]

\* get: a hit deletes the entry and sets it again, which moves it last
IndexCache_get(m, k) ==
    IF ~MapHas(m, k)
    THEN [ret |-> Null, cache |-> m]
    ELSE LET v == MapGet(m, k)
         IN  [ret |-> v, cache |-> MapSet(MapDelete(m, k), k, v)]

\* the while loop of set: it deletes the first key while size >= maxSize, and
\* never ends when there is nothing to delete or the first key is falsy
RECURSIVE EvictLoop(_, _)
EvictLoop(m, max) ==
    IF Len(m) >= max
    THEN IF Len(m) > 0 /\ Truthy(m[1].key)
         THEN EvictLoop(MapDelete(m, m[1].key), max)
         ELSE [hang |-> TRUE, cache |-> m]
    ELSE [hang |-> FALSE, cache |-> m]

\* set that evicts only when the store is above capacity
RECURSIVE EvictLoop_OffByOne(_, _)
EvictLoop_OffByOne(m, max) ==
    IF Len(m) > max
    THEN IF Len(m) > 0 /\ Truthy(m[1].key)
         THEN EvictLoop_OffByOne(MapDelete(m, m[1].key), max)
         ELSE [hang |-> TRUE, cache |-> m]
    ELSE [hang |-> FALSE, cache |-> m]

IndexCache_set_OffByOne(m, max, k, v) ==
    LET ev == EvictLoop_OffByOne(m, max)
    IN  IF ev.hang THEN ev
        ELSE [hang |-> FALSE, cache |-> MapSet(ev.cache, k, v)]

\* set that keeps the old value of a key that is already stored
IndexCache_set_KeepOld(m, max, k, v) ==
    LET ev == EvictLoop(m, max)
    IN  IF ev.hang THEN ev
        ELSE [hang |-> FALSE,
              cache |-> IF MapHas(ev.cache, k) THEN ev.cache ELSE MapSet(ev.cache, k, v)]

\* set: evict, then Map.set (the timestamp of the entry is never read)
IndexCache_set(m, max, k, v) ==
    LET ev == EvictLoop(m, max)
    IN  IF ev.hang THEN ev
        ELSE [hang |-> FALSE, cache |-> MapSet(ev.cache, k, v)]

IndexCache_has(m, k) == MapHas(m, k)

\* delete that also moves the oldest remaining entry last
IndexCache_delete_Touch(m, k) ==
    LET rest == MapDelete(m, k)
    IN  [ret |-> MapHas(m, k),
         cache |-> IF Len(rest) > 1 THEN Tail(rest) \o <<Head(rest)>> ELSE rest]

IndexCache_delete(m, k) == [ret |-> MapHas(m, k), cache |-> MapDelete(m, k)]

\* invalidateByPrefix that compares whole keys
IndexCache_invalidateByPrefix_Exact(m, prefix) ==
    SelectSeq(m, LAMBDA e : e.key # prefix)

\* invalidateByPrefix: collect the keys that start with the prefix, delete them
IndexCache_invalidateByPrefix(m, prefix) ==
    LET keysToDelete == {k \in MapKeys(m) : StartsWith(k, prefix)}
    IN  SelectSeq(m, LAMBDA e : e.key \notin keysToDelete)

IndexCache_clear(m) == <<>>

-----------------------------------------------------------------------------
(* The analyzer before its first call *)

\* no search under way, and a watcher that is not looked at
NoSearch == [pc |-> "none"]

NoWatcher == [pc |-> "none"]

NoBuild == [pc |-> "idle", idx |-> 0, old |-> {}]

\* config.get<boolean>('enableModuleScoping', true): the setting when nobody set it
DefaultConfig == [enableModuleScoping |-> TRUE]

AnalyzerUnused ==
    /\ isInitialized = FALSE
    /\ initPromise = "null"
    /\ builds = [b \in 0..MaxRebuilds |-> NoBuild]
    /\ queries = <<>>
    /\ debounceTimers = {}
    /\ counts = [queries |-> 0, initBuilds |-> 0, rebuilds |-> 0, changes |-> 0]
    /\ search = NoSearch
    /\ watcher = NoWatcher
    /\ config = DefaultConfig

-----------------------------------------------------------------------------
(* Paths: a path is the sequence of its tokens, the separators included *)

Sep == "/"

RECURSIVE JoinSegments(_)
JoinSegments(segs) ==
    IF segs = <<>> THEN <<>> ELSE <<Sep, Head(segs)>> \o JoinSegments(Tail(segs))

RECURSIVE JoinParts(_)
JoinParts(parts) ==
    IF Len(parts) <= 1 THEN parts ELSE <<Head(parts), ".">> \o JoinParts(Tail(parts))

\* the path of the file named parts[1].parts[2]... in the directory /dir[1]/dir[2]/...
FilePath(dir, parts) == JoinSegments(dir) \o <<Sep>> \o JoinParts(parts)

LastSep(path) ==
    IF \E i \in 1..Len(path) : path[i] = Sep
    THEN CHOOSE i \in 1..Len(path) :
            path[i] = Sep /\ \A j \in (i + 1)..Len(path) : path[j] # Sep
    ELSE 0

\* path.dirname
Dirname(path) == SubSeq(path, 1, LastSep(path) - 1)

\* filePath.replace(/[^/\\]+$/, ''): the directory with its trailing separator
DirWithSep(path) == SubSeq(path, 1, LastSep(path))

\* String.prototype.endsWith
EndsWith(s, suffix) ==
    /\ Len(suffix) <= Len(s)
    /\ SubSeq(s, Len(s) - Len(suffix) + 1, Len(s)) = suffix

\* String.prototype.includes
Includes(s, part) ==
    \E i \in 1..(Len(s) - Len(part) + 1) : SubSeq(s, i, i + Len(part) - 1) = part

ModuleSuffix == <<".", "module", ".", "ts">>

\* dir === moduleDir || dir.startsWith(moduleDir + path.sep)
InModuleDir(dir, moduleDir) == dir = moduleDir \/ StartsWith(dir, moduleDir \o <<Sep>>)

ExcludedDirs == {"node_modules", "dist", "out", "build", ".git", "coverage"}

\* UsageFinder.isExcludedPath
isExcludedPath(path) == \E d \in ExcludedDirs : Includes(path, <<Sep, d, Sep>>)

-----------------------------------------------------------------------------
(* ModuleGraphBuilder *)

\* what parseModuleFile returns for a file without a @Module class
NoModule == [name |-> Null, imports |-> {}, providers |-> {}, controllers |-> {}]

\* what getModuleForFile returns when no module is found
NoNode == [name |-> Null, filePath |-> <<>>, imports |-> {}, providers |-> {},
           controllers |-> {}, importedBy |-> {}]

GraphNames(g) == {g[i].name : i \in 1..Len(g)}

GraphHas(g, name) == name \in GraphNames(g)

GraphGet(g, name) == g[CHOOSE i \in 1..Len(g) : g[i].name = name]

\* moduleGraph.set(module.name, {module, importedBy: new Set(), imports: new Set(module.imports)})
GraphSet(g, mod, path) ==
    LET node == [name |-> mod.name, filePath |-> path, imports |-> mod.imports,
                 providers |-> mod.providers, controllers |-> mod.controllers,
                 importedBy |-> {}]
    IN  IF GraphHas(g, mod.name)
        THEN [i \in 1..Len(g) |-> IF g[i].name = mod.name THEN node ELSE g[i]]
        ELSE Append(g, node)

\* the reverse map that records an importer only on the first node of the graph
BuildImportedBy_FirstOnly(g) ==
    [i \in 1..Len(g) |->
        [g[i] EXCEPT !.importedBy =
            IF i = 1 THEN @ \cup {n \in GraphNames(g) : g[i].name \in GraphGet(g, n).imports}
            ELSE @]]

\* the loop that builds importedBy: every node is added to the nodes it imports
BuildImportedBy(g) ==
    [i \in 1..Len(g) |->
        [g[i] EXCEPT !.importedBy =
            @ \cup {n \in GraphNames(g) : g[i].name \in GraphGet(g, n).imports}]]

\* buildGraph over the files in order, one file after the other
RECURSIVE ParseAll(_, _, _)
ParseAll(g, files, content) ==
    IF files = <<>> THEN g
    ELSE LET mod == content[Head(files)]
         IN  ParseAll(IF mod.name = Null THEN g ELSE GraphSet(g, mod, Head(files)),
                      Tail(files), content)

buildGraph(files, content) == BuildImportedBy(ParseAll(<<>>, files, content))

\* every module that reaches the module over a chain of imports
RECURSIVE Importers(_, _, _)
Importers(g, names, n) ==
    IF n = 0 THEN names
    ELSE Importers(g,
                   names \cup UNION {GraphGet(g, x).importedBy : x \in names \cap GraphNames(g)},
                   n - 1)

getAccessibleModules_Transitive(g, moduleName) == Importers(g, {moduleName}, Len(g))

\* getAccessibleModules: the module and what its node records as importedBy
getAccessibleModules(g, moduleName) ==
    {moduleName} \cup (IF GraphHas(g, moduleName) THEN GraphGet(g, moduleName).importedBy ELSE {})

\* part.charAt(0).toUpperCase() + part.slice(1)
Capitalize(part) ==
    CASE part = "user" -> "User"
      [] part = "billing" -> "Billing"
      [] part = "app" -> "App"
      [] part = "service" -> "Service"
      [] part = "controller" -> "Controller"
      [] part = "module" -> "Module"
      [] part = "main" -> "Main"
      [] part = "util" -> "Util"
      [] OTHER -> part

\* fileNameToClassName(path.basename(filePath, '.ts')): split at . and -, capitalize, join
fileNameToClassName(path) ==
    LET base == SubSeq(path, LastSep(path) + 1, Len(path))
        name == IF EndsWith(base, <<".", "ts">>) THEN SubSeq(base, 1, Len(base) - 2) ELSE base
        parts == SelectSeq(name, LAMBDA t : t \notin {".", "-"})
    IN  [i \in 1..Len(parts) |-> Capitalize(parts[i])]

FirstIndex(g, P(_)) ==
    IF \E i \in 1..Len(g) : P(g[i])
    THEN CHOOSE i \in 1..Len(g) : P(g[i]) /\ \A j \in 1..(i - 1) : ~P(g[j])
    ELSE 0

\* getModuleForFile that tries the first module above the file before the module
\* that lists its class
getModuleForFile_FallbackFirst(g, path) ==
    LET dir == Dirname(path)
        className == fileNameToClassName(path)
        IsFile(n) == n.filePath = path
        Owns(n) == /\ InModuleDir(dir, Dirname(n.filePath))
                   /\ className \in (n.providers \cup n.controllers)
        Above(n) == InModuleDir(dir, Dirname(n.filePath))
        i1 == FirstIndex(g, IsFile)
        i2 == FirstIndex(g, Owns)
        i3 == FirstIndex(g, Above)
    IN  IF i1 # 0 THEN g[i1]
        ELSE IF i3 # 0 THEN g[i3]
        ELSE IF i2 # 0 THEN g[i2]
        ELSE NoNode

\* getModuleForFile: the file's own module, else a module above it that lists its
\* class, else the first module above it
getModuleForFile(g, path) ==
    LET dir == Dirname(path)
        className == fileNameToClassName(path)
        IsFile(n) == n.filePath = path
        Owns(n) == /\ InModuleDir(dir, Dirname(n.filePath))
                   /\ className \in (n.providers \cup n.controllers)
        Above(n) == InModuleDir(dir, Dirname(n.filePath))
        i1 == FirstIndex(g, IsFile)
        i2 == FirstIndex(g, Owns)
        i3 == FirstIndex(g, Above)
    IN  IF i1 # 0 THEN g[i1]
        ELSE IF i2 # 0 THEN g[i2]
        ELSE IF i3 # 0 THEN g[i3]
        ELSE NoNode

-----------------------------------------------------------------------------
(* UsageFinder *)

\* workspace.findFiles(new RelativePattern(moduleDir, '**/*.ts'), EXCLUDED_PATTERNS)
FindFilesUnder(files, dirWithSep) ==
    {f \in files : StartsWith(f, dirWithSep) /\ ~isExcludedPath(f)}

\* workspace.findFiles('**/*.ts', EXCLUDED_PATTERNS)
FindAllFiles(files) == {f \in files : ~isExcludedPath(f)}

\* getModuleScopeFiles: for every accessible module that is a node, its file and
\* every .ts file below its directory
getModuleScopeFiles(g, files, moduleName) ==
    UNION {
        LET node == GraphGet(g, modName)
        IN  (IF isExcludedPath(node.filePath) THEN {} ELSE {node.filePath})
            \cup {f \in FindFilesUnder(files, DirWithSep(node.filePath)) : ~isExcludedPath(f)}
        : modName \in getAccessibleModules(g, moduleName) \cap GraphNames(g)}

\* scopeFiles of findUsages: null, or a set of files
NoScope == [isNull |-> TRUE, files |-> {}]

\* searchUsages: the candidate files, and those of them in which searchInFile finds a
\* match (it finds none in a file that cannot be read: the catch returns no usage)
searchUsages(w, scopeFiles) ==
    LET files == IF ~scopeFiles.isNull
                 THEN {f \in scopeFiles.files : ~isExcludedPath(f)}
                 ELSE FindAllFiles(w.files)
    IN  {f \in files : ~isExcludedPath(f) /\ f \notin w.unreadable /\ f \in w.uses}

\* findUsages that searches no file when the file has no module
findUsages_EmptyScope(g, w, path, enableModuleScoping) ==
    LET currentModule == IF enableModuleScoping THEN getModuleForFile(g, path) ELSE NoNode
        scopeFiles == IF currentModule.name # Null
                      THEN [isNull |-> FALSE,
                            files |-> getModuleScopeFiles(g, w.files, currentModule.name)]
                      ELSE IF enableModuleScoping THEN [isNull |-> FALSE, files |-> {}]
                      ELSE NoScope
    IN  searchUsages(w, scopeFiles)

\* UsageFinder.findUsages for a position that holds the symbol
findUsages(g, w, path, enableModuleScoping) ==
    LET currentModule == IF enableModuleScoping THEN getModuleForFile(g, path) ELSE NoNode
        scopeFiles == IF currentModule.name # Null
                      THEN [isNull |-> FALSE,
                            files |-> getModuleScopeFiles(g, w.files, currentModule.name)]
                      ELSE NoScope
    IN  searchUsages(w, scopeFiles)

-----------------------------------------------------------------------------
(* The workspaces tried: three modules, their files, every choice of imports *)

ModuleNames == {"AppModule", "UserModule", "BillingModule"}

UserModuleFile == FilePath(<<"app", "user">>, <<"user", "module", "ts">>)
UserServiceFile == FilePath(<<"app", "user">>, <<"user", "service", "ts">>)
BillingModuleFile == FilePath(<<"app", "billing">>, <<"billing", "module", "ts">>)
BillingServiceFile == FilePath(<<"app", "billing">>, <<"billing", "service", "ts">>)
BuiltFile == FilePath(<<"app", "user", "dist">>, <<"user", "service", "ts">>)
UtilFile == FilePath(<<"lib">>, <<"util", "ts">>)

\* AppModule in the directory above the feature modules, or in a directory beside them
AppModuleFile(layout) ==
    IF layout = "above" THEN FilePath(<<"app">>, <<"app", "module", "ts">>)
    ELSE FilePath(<<"app", "core">>, <<"app", "module", "ts">>)

AppControllerFile(layout) ==
    IF layout = "above" THEN FilePath(<<"app">>, <<"app", "controller", "ts">>)
    ELSE FilePath(<<"app", "core">>, <<"app", "controller", "ts">>)

Layouts == {"above", "beside"}

Workspace(layout, appImports, userImports, billingImports) ==
    LET app == AppModuleFile(layout)
        ctl == AppControllerFile(layout)
        all == {app, ctl, UserModuleFile, UserServiceFile, BillingModuleFile,
                BillingServiceFile, BuiltFile, UtilFile}
    IN  [files |-> all,
         moduleFiles |-> <<UserModuleFile, app, BillingModuleFile>>,
         content |->
            [f \in {app, UserModuleFile, BillingModuleFile} |->
                IF f = app
                THEN [name |-> "AppModule", imports |-> appImports, providers |-> {},
                      controllers |-> {<<"App", "Controller">>}]
                ELSE IF f = UserModuleFile
                THEN [name |-> "UserModule", imports |-> userImports,
                      providers |-> {<<"User", "Service">>}, controllers |-> {}]
                ELSE [name |-> "BillingModule", imports |-> billingImports,
                      providers |-> {<<"Billing", "Service">>}, controllers |-> {}]],
         uses |-> all, unreadable |-> {}]

NoWorkspace == [files |-> {}, moduleFiles |-> <<>>, content |-> <<>>, uses |-> {},
                unreadable |-> {}]

InitGraph ==
    /\ \E layout \in Layouts, ai \in SUBSET ModuleNames, ui \in SUBSET ModuleNames,
          bi \in SUBSET ModuleNames :
            ws = Workspace(layout, ai, ui, bi)
    /\ moduleGraph = <<>>
    /\ last = [op |-> "none"]
    /\ cache = <<>>
    /\ maxSize = MaxCap
    /\ hung = FALSE
    /\ recency = <<>>
    /\ inserted = <<>>
    /\ live = <<>>
    /\ AnalyzerUnused

\* buildGraph, run from its call to its return with nothing in between
BuildGraphAlone ==
    /\ moduleGraph' = buildGraph(ws.moduleFiles, ws.content)
    /\ last' = [op |-> "buildGraph"]
    /\ UNCHANGED <<cacheVars, ws, analyzerVars>>
    /\ UNCHANGED sideVars

\* a call changes nothing, so each is made once, on the graph as it was built
CallGetAccessibleModules(name) ==
    /\ last.op = "buildGraph"
    /\ name \in GraphNames(moduleGraph)
    /\ last' = [op |-> "getAccessibleModules", name |-> name,
                ret |-> getAccessibleModules(moduleGraph, name)]
    /\ UNCHANGED <<cacheVars, graphVars, analyzerVars>>
    /\ UNCHANGED sideVars

CallFindUsages(path, enableModuleScoping) ==
    /\ last.op = "buildGraph"
    /\ LET m == getModuleForFile(moduleGraph, path)
       IN  last' = [op |-> "findUsages", file |-> path, scoping |-> enableModuleScoping,
                    module |-> m.name,
                    ret |-> findUsages(moduleGraph, ws, path, enableModuleScoping)]
    /\ UNCHANGED <<cacheVars, graphVars, analyzerVars>>
    /\ UNCHANGED sideVars

\* paths of no file of the workspace: getModuleForFile takes any path
UserMainFile == FilePath(<<"app", "user">>, <<"main", "ts">>)
BillingMainFile == FilePath(<<"app", "billing", "dto">>, <<"main", "ts">>)
ProbePaths == {UserMainFile, BillingMainFile}

CallGetModuleForFile(path) ==
    /\ last.op = "buildGraph"
    /\ last' = [op |-> "getModuleForFile", file |-> path,
                ret |-> getModuleForFile(moduleGraph, path).name]
    /\ UNCHANGED <<cacheVars, graphVars, analyzerVars>>
    /\ UNCHANGED sideVars

NextGraph ==
    \/ BuildGraphAlone
    \/ \E name \in ModuleNames : CallGetAccessibleModules(name)
    \/ \E path \in ws.files, sc \in BOOLEAN : CallFindUsages(path, sc)
    \/ \E path \in ws.files \cup ProbePaths : CallGetModuleForFile(path)

SpecGraph == InitGraph /\ [][NextGraph]_vars

-----------------------------------------------------------------------------
(* The analyzer, its queries, the builds and the file watcher *)

XModuleFile == FilePath(<<"x">>, <<"x", "module", "ts">>)
NModuleFile == FilePath(<<"n">>, <<"n", "module", "ts">>)
AFile == FilePath(<<"x">>, <<"a", "ts">>)
\* a file whose path starts with the path of AFile: /x/a.tsx.ts
LongAFile == AFile \o <<"x", ".", "ts">>
BFile == FilePath(<<"n">>, <<"b", "ts">>)

SourceFiles == {AFile, LongAFile, BFile}

\* what the module files declare: NModule imports XModule, or imports nothing
XModule == [name |-> "XModule", imports |-> {}, providers |-> {}, controllers |-> {}]
NModule(imports) == [name |-> "NModule", imports |-> imports, providers |-> {}, controllers |-> {}]

NImports == {{}, {"XModule"}}

AnalyzerWorkspace(nImports) ==
    [files |-> SourceFiles \cup {XModuleFile, NModuleFile},
     moduleFiles |-> <<XModuleFile, NModuleFile>>,
     content |-> [f \in {XModuleFile, NModuleFile} |->
                    IF f = XModuleFile THEN XModule ELSE NModule(nImports)],
     uses |-> SourceFiles \cup {XModuleFile, NModuleFile},
     unreadable |-> {}]

QueryKinds == {"usages", "definition"}

\* `usages:${fsPath}:${line}:${character}` and `definition:${fsPath}:${line}:${character}`
CacheKey(kind, path, line, character) ==
    <<kind, ":">> \o path \o <<":", line, ":", character>>

\* the prefixes of invalidateFile: `usages:${filePath}` and `definition:${filePath}`
KeyPrefix(kind, path) == <<kind, ":">> \o path

\* initialize that looks at isInitialized alone
StartsInitBuild_NoMemo(initialized, promise) == ~initialized

\* initialize: doInitialize is called when neither the flag nor a promise is set
StartsInitBuild(initialized, promise) == ~initialized /\ promise = "null"

\* the cacheSize options tried: one with which set never returns, and one that holds two results
CacheSizes == {0, 2}

InitAnalyzer ==
    /\ cache = <<>>
    /\ maxSize \in CacheSizes
    /\ hung = FALSE
    /\ recency = <<>>
    /\ inserted = <<>>
    /\ live = <<>>
    /\ last = [op |-> "none"]
    /\ \E ni \in NImports : ws = AnalyzerWorkspace(ni)
    /\ moduleGraph = <<>>
    /\ AnalyzerUnused

\* a step that no claim looks at
Quiet == last' = [op |-> "none"]

\* the cache keys of old that are still stored and were not stored again
StillOld(old, newCache, stored) == (old \cap MapKeys(newCache)) \ stored

AgeBuilds(newCache, stored) ==
    [b \in DOMAIN builds |-> [builds[b] EXCEPT !.old = StillOld(@, newCache, stored)]]

RemoveAt(seq, i) == SubSeq(seq, 1, i - 1) \o SubSeq(seq, i + 1, Len(seq))

\* history: an invalidation that concerns the queries of Hit(_) has run. A query between
\* its cache miss and its store has been crossed by it, a query that has not looked its
\* key up yet was issued too early to count as issued after it
Invalidated(qs, Hit(_)) ==
    [i \in 1..Len(qs) |->
        IF ~Hit(qs[i]) THEN qs[i]
        ELSE IF qs[i].pc \in {"resolving", "searching"} THEN [qs[i] EXCEPT !.inv = "crossed"]
        ELSE IF qs[i].inv = "none" THEN [qs[i] EXCEPT !.inv = "early"]
        ELSE qs[i]]

\* findUsages or findDefinition up to its await of initialize(), for the position 1:0
StartQuery(kind, path) ==
    /\ ~hung
    /\ counts.queries < MaxQueries
    /\ LET q == [kind |-> kind, file |-> path, key |-> CacheKey(kind, path, 1, 0),
                 pc |-> "awaitInit", wait |-> IF isInitialized THEN "none" ELSE "init",
                 enableModuleScoping |-> TRUE, scope |-> NoScope, inv |-> "none"]
       IN  /\ queries' = Append(queries, q)
           /\ IF StartsInitBuild(isInitialized, initPromise)
              THEN \* doInitialize runs buildGraph up to its await of findFiles
                   /\ initPromise' = "pending"
                   /\ moduleGraph' = <<>>
                   /\ builds' = [builds EXCEPT ![0] = [pc |-> "findFiles", idx |-> 0, old |-> {}]]
                   /\ counts' = [counts EXCEPT !.queries = @ + 1, !.initBuilds = @ + 1]
              ELSE /\ counts' = [counts EXCEPT !.queries = @ + 1]
                   /\ UNCHANGED <<initPromise, moduleGraph, builds>>
    /\ Quiet
    /\ UNCHANGED <<cacheVars, ws, isInitialized, debounceTimers>>
    /\ UNCHANGED sideVars

\* the query goes on after initialize(): the promise it awaits is rejected, it throws
InitFailed(q) ==
    /\ ~hung
    /\ queries[q].pc = "awaitInit"
    /\ queries[q].wait = "init"
    /\ initPromise = "rejected"
    /\ queries' = RemoveAt(queries, q)
    /\ last' = [op |-> "queryFailed"]
    /\ UNCHANGED <<cacheVars, graphVars, isInitialized, initPromise, builds, debounceTimers, counts>>
    /\ UNCHANGED sideVars

\* what the call reads of the settings: findUsages reads enableModuleScoping,
\* findDefinition reads nothing
ReadConfig(kind) == IF kind = "usages" THEN config.enableModuleScoping ELSE TRUE

\* the query goes on after initialize(): findUsages reads the setting, then the query
\* looks its key up, returns on a hit, and on a miss calls symbolResolver.findDefinition
\* (a stored value is an array or an object, so it is truthy)
Lookup(q) ==
    /\ ~hung
    /\ queries[q].pc = "awaitInit"
    /\ queries[q].wait = "none" \/ initPromise = "resolved"
    /\ LET r == IndexCache_get(cache, queries[q].key)
           enableModuleScoping == ReadConfig(queries[q].kind)
       IN  /\ cache' = r.cache
           /\ IF MapHas(cache, queries[q].key)
              THEN /\ queries' = RemoveAt(queries, q)
                   /\ last' = [op |-> "queryDone", kind |-> queries[q].kind,
                               file |-> queries[q].file, hit |-> TRUE, ret |-> r.ret.ret,
                               enableModuleScoping |-> enableModuleScoping,
                               crossed |-> r.ret.crossed /\ queries[q].inv = "none"]
              ELSE /\ queries' = [queries EXCEPT ![q].pc = "resolving",
                                      ![q].enableModuleScoping = enableModuleScoping]
                   /\ last' = [op |-> "miss"]
    /\ UNCHANGED <<maxSize, hung, recency, inserted, live, graphVars, isInitialized,
                   initPromise, builds, debounceTimers, counts>>
    /\ UNCHANGED sideVars

\* this.cache.set(cacheKey, value), which may never return, and the return of the query
Store(q, value) ==
    LET r == IndexCache_set(cache, maxSize, queries[q].key, value)
    IN  IF r.hang
        THEN /\ hung' = TRUE
             /\ last' = [op |-> "hang"]
             /\ UNCHANGED <<cache, builds, queries>>
        ELSE /\ hung' = FALSE
             /\ cache' = r.cache
             /\ builds' = AgeBuilds(r.cache, {queries[q].key})
             /\ queries' = RemoveAt(queries, q)
             /\ last' = [op |-> "queryDone", kind |-> queries[q].kind,
                         file |-> queries[q].file, hit |-> FALSE, ret |-> value.ret,
                         enableModuleScoping |-> queries[q].enableModuleScoping,
                         crossed |-> FALSE]

\* findDefinition after symbolResolver.findDefinition: a definition is stored, null is not
DefinitionResolved(q, found) ==
    /\ ~hung
    /\ queries[q].pc = "resolving"
    /\ queries[q].kind = "definition"
    /\ IF found
       THEN Store(q, [file |-> queries[q].file, kind |-> "definition",
                      ret |-> {queries[q].file}, crossed |-> queries[q].inv = "crossed"])
       ELSE /\ queries' = RemoveAt(queries, q)
            /\ last' = [op |-> "queryDone", kind |-> "definition",
                        file |-> queries[q].file, hit |-> FALSE, ret |-> {},
                        enableModuleScoping |-> queries[q].enableModuleScoping,
                        crossed |-> FALSE]
            /\ UNCHANGED <<cache, hung, builds>>
    /\ UNCHANGED <<maxSize, recency, inserted, live, graphVars, isInitialized, initPromise,
                   debounceTimers, counts>>
    /\ UNCHANGED sideVars

\* findUsages after symbolResolver.findDefinition: usageFinder.findUsages reads the
\* graph for the scope, up to its await of the files to search
UsagesScoped(q) ==
    /\ ~hung
    /\ queries[q].pc = "resolving"
    /\ queries[q].kind = "usages"
    /\ LET currentModule == IF queries[q].enableModuleScoping
                            THEN getModuleForFile(moduleGraph, queries[q].file)
                            ELSE NoNode
           scopeFiles == IF currentModule.name # Null
                         THEN [isNull |-> FALSE,
                               files |-> getModuleScopeFiles(moduleGraph, ws.files, currentModule.name)]
                         ELSE NoScope
       IN  queries' = [queries EXCEPT ![q].pc = "searching", ![q].scope = scopeFiles]
    /\ last' = IF queries[q].enableModuleScoping
               THEN [op |-> "readGraph", graph |-> moduleGraph]
               ELSE [op |-> "none"]
    /\ UNCHANGED <<cacheVars, graphVars, isInitialized, initPromise, builds, debounceTimers, counts>>
    /\ UNCHANGED sideVars

\* findUsages after usageFinder.findUsages: the usages are stored
UsagesFound(q) ==
    /\ ~hung
    /\ queries[q].pc = "searching"
    /\ Store(q, [file |-> queries[q].file, kind |-> "usages",
                 ret |-> searchUsages(ws, queries[q].scope),
                 crossed |-> queries[q].inv = "crossed"])
    /\ UNCHANGED <<maxSize, recency, inserted, live, graphVars, isInitialized, initPromise,
                   debounceTimers, counts>>
    /\ UNCHANGED sideVars

\* the watcher reports a change of a file: handleFileChange replaces the timer of the path
\* (NModule may declare other imports after the change)
FileChanged(path, nImports) ==
    /\ ~hung
    /\ counts.changes < MaxChanges
    /\ ~Includes(path, <<"node_modules">>)
    /\ path # NModuleFile => nImports = ws.content[NModuleFile].imports
    /\ debounceTimers' = debounceTimers \cup {path}
    /\ ws' = [ws EXCEPT !.content[NModuleFile] = NModule(nImports)]
    /\ counts' = [counts EXCEPT !.changes = @ + 1]
    /\ Quiet
    /\ UNCHANGED <<cacheVars, moduleGraph, isInitialized, initPromise, builds, queries>>
    /\ UNCHANGED sideVars

FreeBuild == CHOOSE b \in 1..MaxRebuilds :
                builds[b].pc = "idle" /\ \A c \in 1..(b - 1) : builds[c].pc # "idle"

\* the timer of a module file fires: processFileChange calls rebuildModuleGraph, which
\* runs buildGraph up to its await of findFiles
TimerRebuild(path) ==
    /\ ~hung
    /\ path \in debounceTimers
    /\ EndsWith(path, ModuleSuffix)
    /\ counts.rebuilds < MaxRebuilds
    /\ debounceTimers' = debounceTimers \ {path}
    /\ moduleGraph' = <<>>
    /\ builds' = [builds EXCEPT ![FreeBuild] =
                    [pc |-> "findFiles", idx |-> 0, old |-> MapKeys(cache)]]
    /\ counts' = [counts EXCEPT !.rebuilds = @ + 1]
    /\ Quiet
    /\ UNCHANGED <<cacheVars, ws, isInitialized, initPromise, queries>>
    /\ UNCHANGED sideVars

\* NestJSAnalyzer.invalidateFile
invalidateFile(m, path) ==
    IndexCache_invalidateByPrefix(
        IndexCache_invalidateByPrefix(m, KeyPrefix("usages", path)),
        KeyPrefix("definition", path))

\* the timer of another file fires: processFileChange calls invalidateFile
TimerInvalidate(path) ==
    /\ ~hung
    /\ path \in debounceTimers
    /\ ~EndsWith(path, ModuleSuffix)
    /\ debounceTimers' = debounceTimers \ {path}
    /\ cache' = invalidateFile(cache, path)
    /\ builds' = AgeBuilds(invalidateFile(cache, path), {})
    /\ last' = [op |-> "invalidateFile", file |-> path, before |-> cache,
                graphBefore |-> moduleGraph]
    /\ queries' = Invalidated(queries, LAMBDA q : q.file = path)
    /\ UNCHANGED <<maxSize, hung, recency, inserted, live, graphVars, isInitialized,
                   initPromise, counts>>
    /\ UNCHANGED sideVars

\* what follows the return of buildGraph in its caller
BuildReturned(b, ok) ==
    IF b = 0
    THEN \* doInitialize sets the flag; the promise of initialize settles
         /\ isInitialized' = (isInitialized \/ ok)
         /\ initPromise' = IF ok THEN "resolved" ELSE "rejected"
         /\ builds' = [builds EXCEPT ![b] = NoBuild]
         /\ last' = [op |-> "doInitialize", ok |-> ok, stale |-> {}]
         /\ UNCHANGED <<cache, queries>>
    ELSE \* rebuildModuleGraph clears the cache, unless buildGraph threw
         /\ cache' = IF ok THEN IndexCache_clear(cache) ELSE cache
         /\ builds' = [AgeBuilds(IF ok THEN <<>> ELSE cache, {}) EXCEPT ![b] = NoBuild]
         /\ last' = [op |-> "rebuildModuleGraph", ok |-> ok,
                     stale |-> IF ok THEN {} ELSE builds[b].old]
         /\ queries' = IF ok THEN Invalidated(queries, LAMBDA q : TRUE) ELSE queries
         /\ UNCHANGED <<isInitialized, initPromise>>

\* findFiles of buildGraph rejects: buildGraph throws
FindFilesFailed(b) ==
    /\ ~hung
    /\ builds[b].pc = "findFiles"
    /\ BuildReturned(b, FALSE)
    /\ UNCHANGED <<maxSize, hung, recency, inserted, live, graphVars, debounceTimers, counts>>
    /\ UNCHANGED sideVars

\* findFiles of buildGraph returns the module files; with none, buildGraph returns
FindFilesReturned(b) ==
    /\ ~hung
    /\ builds[b].pc = "findFiles"
    /\ IF ws.moduleFiles = <<>>
       THEN /\ moduleGraph' = BuildImportedBy(moduleGraph)
            /\ BuildReturned(b, TRUE)
       ELSE /\ builds' = [builds EXCEPT ![b].pc = "parsing", ![b].idx = 1]
            /\ Quiet
            /\ UNCHANGED <<cache, moduleGraph, isInitialized, initPromise, queries>>
    /\ UNCHANGED <<maxSize, hung, recency, inserted, live, ws, debounceTimers, counts>>
    /\ UNCHANGED sideVars

\* buildGraph goes on after parseModuleFile of its next file; after the last file it
\* builds importedBy and returns
FileParsed(b) ==
    /\ ~hung
    /\ builds[b].pc = "parsing"
    /\ LET file == ws.moduleFiles[builds[b].idx]
           mod == ws.content[file]
           g == IF mod.name = Null THEN moduleGraph ELSE GraphSet(moduleGraph, mod, file)
       IN  IF builds[b].idx < Len(ws.moduleFiles)
           THEN /\ moduleGraph' = g
                /\ builds' = [builds EXCEPT ![b].idx = @ + 1]
                /\ Quiet
                /\ UNCHANGED <<cache, isInitialized, initPromise, queries>>
           ELSE /\ moduleGraph' = BuildImportedBy(g)
                /\ BuildReturned(b, TRUE)
    /\ UNCHANGED <<maxSize, hung, recency, inserted, live, ws, debounceTimers, counts>>
    /\ UNCHANGED sideVars

UsagesSteps ==
    \/ \E q \in 1..Len(queries) : InitFailed(q)
    \/ \E q \in 1..Len(queries) : Lookup(q)
    \/ \E q \in 1..Len(queries) : UsagesScoped(q)
    \/ \E q \in 1..Len(queries) : UsagesFound(q)

QuerySteps ==
    \/ UsagesSteps
    \/ \E q \in 1..Len(queries), found \in BOOLEAN : DefinitionResolved(q, found)

BuildSteps ==
    \/ \E b \in 0..MaxRebuilds : FindFilesFailed(b)
    \/ \E b \in 0..MaxRebuilds : FindFilesReturned(b)
    \/ \E b \in 0..MaxRebuilds : FileParsed(b)

\* queries on one position while module files change: the builds overlap
NextBuilds ==
    \/ StartQuery("usages", AFile)
    \/ \E path \in {XModuleFile, NModuleFile}, ni \in NImports : FileChanged(path, ni)
    \/ \E path \in debounceTimers : TimerRebuild(path)
    \/ UsagesSteps
    \/ BuildSteps

SpecBuilds == InitAnalyzer /\ [][NextBuilds]_vars

\* queries of both kinds on several files while a source file and a module file change
NextWatch ==
    \/ \E kind \in QueryKinds, path \in SourceFiles : StartQuery(kind, path)
    \/ \E path \in {AFile, NModuleFile} : FileChanged(path, ws.content[NModuleFile].imports)
    \/ \E path \in debounceTimers : TimerRebuild(path)
    \/ \E path \in debounceTimers : TimerInvalidate(path)
    \/ QuerySteps
    \/ BuildSteps

SpecWatch == InitAnalyzer /\ [][NextWatch]_vars

\* queries of both kinds that arrive before, during and after the first build, while a
\* module file changes once
NextInit ==
    \/ \E kind \in QueryKinds : StartQuery(kind, AFile)
    \/ counts.changes = 0 /\ FileChanged(NModuleFile, ws.content[NModuleFile].imports)
    \/ \E path \in debounceTimers : TimerRebuild(path)
    \/ QuerySteps
    \/ BuildSteps

SpecInit == InitAnalyzer /\ [][NextInit]_vars

\* the event loop runs whatever is ready to run
SpecInitFair == SpecInit /\ WF_vars(NextInit)

\* a file becomes unreadable (locked, deleted, broken), or readable again
ReadabilityChanged(path) ==
    /\ ~hung
    /\ ws' = [ws EXCEPT !.unreadable = IF path \in @ THEN @ \ {path} ELSE @ \cup {path}]
    /\ Quiet
    /\ UNCHANGED <<cacheVars, moduleGraph, analyzerVars>>
    /\ UNCHANGED sideVars

\* queries on one position while a file of its scope cannot always be read
NextRead ==
    \/ StartQuery("usages", AFile)
    \/ ReadabilityChanged(LongAFile)
    \/ UsagesSteps
    \/ BuildSteps

SpecRead == InitAnalyzer /\ [][NextRead]_vars

\* a source file is saved with a usage of the symbol more, or less, than it had, and the
\* watcher reports the change: handleFileChange replaces the timer of the path
FileEdited(path) ==
    /\ ~hung
    /\ counts.changes < MaxChanges
    /\ ~Includes(path, <<"node_modules">>)
    /\ ws' = [ws EXCEPT !.uses = IF path \in @ THEN @ \ {path} ELSE @ \cup {path}]
    /\ debounceTimers' = debounceTimers \cup {path}
    /\ counts' = [counts EXCEPT !.changes = @ + 1]
    /\ Quiet
    /\ UNCHANGED <<cacheVars, moduleGraph, isInitialized, initPromise, builds, queries>>
    /\ UNCHANGED sideVars

\* queries on one position while another file of its scope is edited
NextEdit ==
    \/ StartQuery("usages", AFile)
    \/ FileEdited(LongAFile)
    \/ \E path \in debounceTimers : TimerInvalidate(path)
    \/ UsagesSteps
    \/ BuildSteps

SpecEdit == InitAnalyzer /\ [][NextEdit]_vars

\* the user sets nestjsUsage.enableModuleScoping
SetEnableModuleScoping(value) ==
    /\ config.enableModuleScoping # value
    /\ config' = [config EXCEPT !.enableModuleScoping = value]
    /\ UNCHANGED <<cacheVars, last, graphVars, analyzerVars, search, watcher>>

\* queries on one position while the user sets and unsets module scoping
NextScoping ==
    \/ StartQuery("usages", AFile)
    \/ \E value \in BOOLEAN : SetEnableModuleScoping(value)
    \/ UsagesSteps
    \/ BuildSteps

SpecScoping == InitAnalyzer /\ [][NextScoping]_vars

-----------------------------------------------------------------------------
(* UsageFinder: the search for a symbol in the syntax trees of the candidate files *)

\* A source file is what the search reads of it:
\*   decls: the parameters, property declarations and variable declarations with an
\*          identifier as name, in document order, each with the name of its type
\*          reference (None without one);
\*   ids:   the identifiers whose text is the symbol searched for, in document order,
\*          each with its line, the kind of its parent when it is the parent's name
\*          (or "CallExpression" for a plain call), and for the name of a property
\*          access the kind of the receiver expression, the variable named last in
\*          it, and the declaration of decls that the receiver refers to (0: none).
None == "undefined"

\* the parents whose name isDeclaration looks for
TestedParents ==
    {"ClassDeclaration", "MethodDeclaration", "FunctionDeclaration", "VariableDeclaration",
     "PropertyDeclaration", "Parameter", "PropertyAssignment"}

\* UsageFinder.isDeclaration
isDeclaration(id) == id.parent \in TestedParents

\* UsageFinder.isMethodAccessNode
isMethodAccessNode(id) == id.parent = "PropertyAccessExpression"

\* UsageFinder.resolveVariableType: the type of the first declaration of that name that
\* has a type reference, wherever in the file it stands
RECURSIVE resolveVariableType(_, _)
resolveVariableType(decls, variableName) ==
    IF decls = <<>> THEN None
    ELSE IF Head(decls).name = variableName /\ Head(decls).type # None
         THEN Head(decls).type
         ELSE resolveVariableType(Tail(decls), variableName)

\* UsageFinder.matchesContainer
matchesContainer(sf, id, expectedClassName) ==
    /\ id.parent = "PropertyAccessExpression"
    /\ id.recv \in {"Identifier", "PropertyAccessExpression"}
    /\ resolveVariableType(sf.decls, id.var) = expectedClassName

\* the visit of searchInFile: the identifiers of the file that are pushed
Pushed(sf, id, containerClassName) ==
    /\ ~isDeclaration(id)
    /\ IF containerClassName # None
       THEN matchesContainer(sf, id, containerClassName)
       ELSE ~isMethodAccessNode(id)

\* UsageFinder.searchInFile on a file that could be opened: the usages in document order
RECURSIVE VisitFrom(_, _, _, _)
VisitFrom(path, sf, containerClassName, k) ==
    IF k > Len(sf.ids) THEN <<>>
    ELSE (IF Pushed(sf, sf.ids[k], containerClassName)
          THEN <<[file |-> path, line |-> sf.ids[k].line, at |-> k]>>
          ELSE <<>>)
         \o VisitFrom(path, sf, containerClassName, k + 1)

searchInFile(path, sf, containerClassName) ==
    IF isExcludedPath(path) THEN <<>> ELSE VisitFrom(path, sf, containerClassName, 1)

\* the text of the line before the word, as tokens: a word, a blank, or a sign
Words == {"repo", "other", "this", "getRepo", "return"}

RECURSIVE StripBlanks(_)
StripBlanks(text) ==
    IF text # <<>> /\ text[Len(text)] = " "
    THEN StripBlanks(SubSeq(text, 1, Len(text) - 1))
    ELSE text

Front(text) == SubSeq(text, 1, Len(text) - 1)

\* the text with a trailing \s*\.\s* taken off, when it ends so
BeforeDot(text) ==
    LET t == StripBlanks(text)
    IN  IF t # <<>> /\ t[Len(t)] = "."
        THEN [ok |-> TRUE, rest |-> StripBlanks(Front(t))]
        ELSE [ok |-> FALSE, rest |-> <<>>]

\* textBefore.match(/(\w+)\s*\.\s*$/): the word matched, or None
PropertyAccessMatch(textBefore) ==
    LET u == BeforeDot(textBefore)
    IN  IF u.ok /\ u.rest # <<>> /\ u.rest[Len(u.rest)] \in Words
        THEN u.rest[Len(u.rest)]
        ELSE None

\* textBefore.match(/this\s*\.\s*(\w+)\s*\.\s*$/): the word matched, or None
DeeperMatch(textBefore) ==
    LET w == PropertyAccessMatch(textBefore)
        v == IF w = None THEN [ok |-> FALSE, rest |-> <<>>]
             ELSE BeforeDot(Front(BeforeDot(textBefore).rest))
    IN  IF v.ok /\ v.rest # <<>> /\ v.rest[Len(v.rest)] = "this" THEN w ELSE None

\* UsageFinder.isMethodAccess: /\w+\s*\.\s*$/.test(textBefore)
isMethodAccess(textBefore) == PropertyAccessMatch(textBefore) # None

\* UsageFinder.resolveContainerClass
resolveContainerClass(sf, textBefore) ==
    LET containerVarName == PropertyAccessMatch(textBefore)
    IN  IF containerVarName = None THEN None
        ELSE IF containerVarName = "this"
             THEN IF DeeperMatch(textBefore) # None
                  THEN resolveVariableType(sf.decls, DeeperMatch(textBefore))
                  ELSE None
             ELSE resolveVariableType(sf.decls, containerVarName)

\* containerClassName || (await this.resolveContainerClass(document, position))
ContainerClass(sf, query) ==
    IF query.containerClassName # None THEN query.containerClassName
    ELSE resolveContainerClass(sf, query.textBefore)

\* the order of String.prototype.localeCompare on the signs and words of the paths tried
Collation == <<"/", ".", "a", "b", "c", "d", "e", "f", "g", "h", "i", "j", "k", "s", "ts">>

TokenRank(t) == CHOOSE i \in 1..Len(Collation) : Collation[i] = t

\* a.localeCompare(b): negative, zero or positive
RECURSIVE localeCompare(_, _)
localeCompare(a, b) ==
    IF a = <<>> /\ b = <<>> THEN 0
    ELSE IF a = <<>> THEN -1
    ELSE IF b = <<>> THEN 1
    ELSE IF TokenRank(Head(a)) # TokenRank(Head(b))
         THEN TokenRank(Head(a)) - TokenRank(Head(b))
         ELSE localeCompare(Tail(a), Tail(b))

\* the comparator of usages.sort
compareUsages(a, b) ==
    LET pathCompare == localeCompare(a.file, b.file)
    IN  IF pathCompare # 0 THEN pathCompare ELSE a.line - b.line

\* Array.prototype.sort is stable: u goes behind the elements that do not compare greater
RECURSIVE InsertUsage(_, _)
InsertUsage(sorted, u) ==
    IF sorted = <<>> THEN <<u>>
    ELSE IF compareUsages(Head(sorted), u) <= 0
         THEN <<Head(sorted)>> \o InsertUsage(Tail(sorted), u)
         ELSE <<u>> \o sorted

\* a search that returns the usages in the order they were pushed
sortUsages_None(usages) == usages

RECURSIVE sortUsages(_)
sortUsages(usages) ==
    IF usages = <<>> THEN <<>>
    ELSE InsertUsage(sortUsages(Front(usages)), usages[Len(usages)])

\* const CONCURRENCY = 10
CONCURRENCY == 10

Min(a, b) == IF a < b THEN a ELSE b

\* files.slice(i, i + CONCURRENCY), as the positions of the files
Batch(files, i) == i..Min(i + CONCURRENCY - 1, Len(files))

\* results.flat() of the batch that starts at i
RECURSIVE Flat(_, _, _)
Flat(results, i, n) ==
    IF i > n THEN <<>> ELSE results[i] \o Flat(results, i + 1, n)

\* searchUsages from the batch that starts at i, up to the await of its file reads;
\* past the last batch it sorts and returns
StartBatch(sr, i) ==
    IF i <= Len(sr.files)
    THEN [sr EXCEPT !.pc = "batch", !.i = i, !.pending = Batch(sr.files, i),
                    !.searched = @ \cup {sr.files[k] : k \in Batch(sr.files, i)}]
    ELSE [sr EXCEPT !.pc = "done", !.pending = {}, !.ret = sortUsages(sr.usages)]

\* the catch of searchInFile that lets the error through
OnReadError_Rethrow(sr, k) == [sr EXCEPT !.pc = "threw", !.pending = {}]

\* the catch of searchInFile: the error is logged and the usages pushed so far, none,
\* are returned
OnReadError(sr, k) ==
    [sr EXCEPT !.pending = @ \ {k}, !.results[k] = <<>>, !.failed = @ \cup {sr.files[k]}]

\* UsageFinder.findUsages for the identifier at of the file, up to the first await of a
\* file read, or up to its return
StartSearch(file, at, containerClassName, enableModuleScoping) ==
    /\ search.pc = "none"
    /\ file \in DOMAIN ws.text
    /\ at \in 1..Len(ws.text[file].ids)
    /\ LET query == [file |-> file, at |-> at,
                     textBefore |-> ws.text[file].ids[at].before,
                     containerClassName |-> containerClassName]
           containerClass == ContainerClass(ws.text[file], query)
           currentModule == IF enableModuleScoping
                            THEN getModuleForFile(moduleGraph, file) ELSE NoNode
           scopeFiles == IF currentModule.name # Null
                         THEN [isNull |-> FALSE,
                               files |-> getModuleScopeFiles(moduleGraph, ws.files, currentModule.name)]
                         ELSE NoScope
           InSearch(f) == /\ ~isExcludedPath(f)
                          /\ scopeFiles.isNull \/ f \in scopeFiles.files
           sr == [pc |-> "start", query |-> query, containerClass |-> containerClass,
                  files |-> SelectSeq(ws.order, InSearch), i |-> 0, pending |-> {},
                  results |-> [k \in 1..Len(ws.order) |-> <<>>], usages |-> <<>>,
                  searched |-> {}, failed |-> {}, outOfOrder |-> FALSE, ret |-> <<>>]
       IN  IF containerClass = None /\ isMethodAccess(query.textBefore)
           THEN search' = [sr EXCEPT !.pc = "done"]
           ELSE search' = StartBatch(sr, 1)
    /\ UNCHANGED <<cacheVars, last, graphVars, analyzerVars, watcher, config>>

\* openTextDocument of a file of the batch resolves: searchInFile visits the tree and returns
FileOpened(k) ==
    /\ search.pc = "batch"
    /\ k \in search.pending
    /\ search.files[k] \notin ws.unreadable
    /\ search' = [search EXCEPT
          !.pending = @ \ {k},
          !.results[k] = searchInFile(search.files[k], ws.text[search.files[k]],
                                      search.containerClass),
          !.outOfOrder = @ \/ \E j \in search.pending : j < k]
    /\ UNCHANGED <<cacheVars, last, graphVars, analyzerVars, watcher, config>>

\* openTextDocument of a file of the batch rejects, or the file cannot be parsed
FileFailed(k) ==
    /\ search.pc = "batch"
    /\ k \in search.pending
    /\ search.files[k] \in ws.unreadable
    /\ search' = OnReadError(search, k)
    /\ UNCHANGED <<cacheVars, last, graphVars, analyzerVars, watcher, config>>

\* Promise.all of the batch resolves: its results are pushed in the order of the files,
\* and the next batch starts
BatchJoined ==
    /\ search.pc = "batch"
    /\ search.pending = {}
    /\ LET n == Min(search.i + CONCURRENCY - 1, Len(search.files))
           sr == [search EXCEPT !.usages = @ \o Flat(search.results, search.i, n)]
       IN  search' = StartBatch(sr, search.i + CONCURRENCY)
    /\ UNCHANGED <<cacheVars, last, graphVars, analyzerVars, watcher, config>>

\* the identifiers of the files tried
Access(line, before, recv, var, decl) ==
    [line |-> line, parent |-> "PropertyAccessExpression", before |-> before,
     recv |-> recv, var |-> var, decl |-> decl]

Plain(line, parent) ==
    [line |-> line, parent |-> parent, before |-> <<" ">>, recv |-> None, var |-> None,
     decl |-> 0]

Decl(name, type) == [name |-> name, type |-> type]

\* two classes, each with a constructor parameter repo, of type A in the first and B in
\* the second:           repo.save()            and          this.repo.save()
TwoRepos ==
    [decls |-> <<Decl("repo", "A"), Decl("repo", "B")>>,
     ids |-> <<Access(2, <<"repo", ".">>, "Identifier", "repo", 1),
               Access(5, <<"this", ".", "repo", ".">>, "PropertyAccessExpression", "repo", 2)>>]

\* repo: A and other: B;  repo?.save(),  getRepo().save(),  other<newline>.save(),
\* this.save()  and  save()
Chains ==
    [decls |-> <<Decl("repo", "A"), Decl("other", "B")>>,
     ids |-> <<Access(1, <<"repo", "?", ".">>, "Identifier", "repo", 1),
               Access(2, <<"getRepo", "(", ")", ".">>, "CallExpression", None, 0),
               Access(4, <<" ", ".">>, "Identifier", "other", 2),
               Access(5, <<"this", ".">>, "ThisKeyword", None, 0),
               Access(6, <<"other", " ", ".", " ">>, "Identifier", "other", 2),
               Plain(7, "CallExpression")>>]

\* the symbol as the name of a declaration of every kind, as a variable declared by
\* destructuring ({ save } = repo), and in two plain uses on one line
Declarations ==
    [decls |-> <<>>,
     ids |-> <<Plain(1, "ClassDeclaration"), Plain(2, "MethodDeclaration"),
               Plain(3, "FunctionDeclaration"), Plain(4, "VariableDeclaration"),
               Plain(5, "PropertyDeclaration"), Plain(6, "Parameter"),
               Plain(7, "PropertyAssignment"), Plain(8, "BindingElement"),
               Plain(9, "CallExpression"), Plain(9, "ShorthandPropertyAssignment")>>]

\* const repo = getRepo(), without a type;  repo.save()  and  save()
Untyped ==
    [decls |-> <<Decl("repo", None)>>,
     ids |-> <<Access(1, <<"repo", ".">>, "Identifier", "repo", 1),
               Plain(2, "CallExpression")>>]

SourceTexts == {TwoRepos, Chains, Declarations, Untyped}

Types == {"A", "B"}

SearchFile(name) == FilePath(<<"s">>, <<name, "ts">>)

\* two files, found in an order that is not that of their paths
SmallOrder == <<SearchFile("b"), SearchFile("a")>>

\* one file more than a batch holds, found in an order that is not that of their paths
LargeOrder ==
    <<SearchFile("k"), SearchFile("b"), SearchFile("a"), SearchFile("d"), SearchFile("c"),
      SearchFile("f"), SearchFile("e"), SearchFile("h"), SearchFile("g"), SearchFile("j"),
      SearchFile("i")>>

Range(seq) == {seq[i] : i \in 1..Len(seq)}

SearchWorkspace(order, text, unreadable) ==
    [order |-> order, files |-> Range(order), text |-> text, unreadable |-> unreadable]

SearchWorkspaces ==
    {SearchWorkspace(SmallOrder, text, unreadable) :
        text \in [Range(SmallOrder) -> SourceTexts], unreadable \in SUBSET Range(SmallOrder)}
    \cup {SearchWorkspace(LargeOrder, [f \in Range(LargeOrder) |-> Untyped], {SearchFile("c")})}

InitSearch ==
    /\ ws \in SearchWorkspaces
    /\ moduleGraph = <<>>
    /\ last = [op |-> "none"]
    /\ cache = <<>>
    /\ maxSize = MaxCap
    /\ hung = FALSE
    /\ recency = <<>>
    /\ inserted = <<>>
    /\ live = <<>>
    /\ AnalyzerUnused

NextSearch ==
    \/ \E file \in ws.files, at \in 1..10, c \in Types \cup {None}, sc \in BOOLEAN :
          StartSearch(file, at, c, sc)
    \/ \E k \in 1..Len(ws.order) : FileOpened(k)
    \/ \E k \in 1..Len(ws.order) : FileFailed(k)
    \/ BatchJoined

SpecSearch == InitSearch /\ [][NextSearch]_vars

-----------------------------------------------------------------------------
(* FileWatcher on its own: the timers and the clock *)

\* private readonly DEBOUNCE_MS = 300
DEBOUNCE_MS == 300

\* the clock counts ticks of 100 ms
Ms(ticks) == ticks * 100

DependencyFile == FilePath(<<"node_modules", "x">>, <<"x", "ts">>)

WatchedPaths == {AFile, NModuleFile, DependencyFile}

\* handleFileChange that leaves the pending timer of the path alone
ClearExisting_Never(timers, existingTimer) == timers

\* if (existingTimer) clearTimeout(existingTimer): the timers still pending
ClearExisting(timers, existingTimer) ==
    IF existingTimer # 0 THEN {t \in timers : t.id # existingTimer} ELSE timers

InitWatcher ==
    /\ watcher = [pc |-> "on", now |-> 0, timers |-> {},
                  debounceTimers |-> [f \in WatchedPaths |-> 0], nextTimer |-> 1,
                  events |-> [f \in WatchedPaths |-> 0],
                  lastEvent |-> [f \in WatchedPaths |-> -1],
                  bursts |-> [f \in WatchedPaths |-> 0],
                  rebuilds |-> [f \in WatchedPaths |-> 0],
                  invalidations |-> [f \in WatchedPaths |-> 0]]
    /\ search = NoSearch
    /\ config = DefaultConfig
    /\ ws = NoWorkspace
    /\ moduleGraph = <<>>
    /\ last = [op |-> "none"]
    /\ cache = <<>>
    /\ maxSize = MaxCap
    /\ hung = FALSE
    /\ recency = <<>>
    /\ inserted = <<>>
    /\ live = <<>>
    /\ isInitialized = FALSE
    /\ initPromise = "null"
    /\ builds = [b \in 0..MaxRebuilds |-> NoBuild]
    /\ queries = <<>>
    /\ debounceTimers = {}
    /\ counts = [queries |-> 0, initBuilds |-> 0, rebuilds |-> 0, changes |-> 0]

\* a timer that is due runs before anything later does
NoneDue == \A t \in watcher.timers : t.due > Ms(watcher.now)

\* 100 ms pass
Tick ==
    /\ watcher.pc = "on"
    /\ watcher.now < MaxTicks
    /\ NoneDue
    /\ watcher' = [watcher EXCEPT !.now = @ + 1]
    /\ UNCHANGED <<cacheVars, last, graphVars, analyzerVars, search, config>>

\* the watcher reports a change, creation or deletion of the path: handleFileChange
HandleFileChange(path) ==
    /\ watcher.pc = "on"
    /\ NoneDue
    /\ watcher.events[AFile] + watcher.events[NModuleFile] + watcher.events[DependencyFile]
          < MaxEvents
    /\ LET newBurst == \/ watcher.lastEvent[path] = -1
                       \/ Ms(watcher.now) - Ms(watcher.lastEvent[path]) >= DEBOUNCE_MS
           seen == [watcher EXCEPT !.events[path] = @ + 1, !.lastEvent[path] = watcher.now,
                                   !.bursts[path] = IF newBurst THEN @ + 1 ELSE @]
           timer == [id |-> watcher.nextTimer, path |-> path,
                     due |-> Ms(watcher.now) + DEBOUNCE_MS]
       IN  IF Includes(path, <<"node_modules">>)
           THEN watcher' = seen
           ELSE watcher' = [seen EXCEPT
                   !.timers = ClearExisting(@, watcher.debounceTimers[path]) \cup {timer},
                   !.debounceTimers[path] = timer.id,
                   !.nextTimer = @ + 1]
    /\ UNCHANGED <<cacheVars, last, graphVars, analyzerVars, search, config>>

\* a timer runs: processFileChange up to its call of the analyzer, then
\* this.debounceTimers.delete(fsPath)
TimerFired(t) ==
    /\ watcher.pc = "on"
    /\ t \in watcher.timers
    /\ t.due <= Ms(watcher.now)
    /\ watcher' = [watcher EXCEPT
          !.timers = @ \ {t},
          !.debounceTimers[t.path] = 0,
          !.rebuilds[t.path] = IF EndsWith(t.path, ModuleSuffix) THEN @ + 1 ELSE @,
          !.invalidations[t.path] = IF EndsWith(t.path, ModuleSuffix) THEN @ ELSE @ + 1]
    /\ UNCHANGED <<cacheVars, last, graphVars, analyzerVars, search, config>>

\* FileWatcher.dispose
Dispose ==
    /\ watcher.pc = "on"
    /\ watcher' = [watcher EXCEPT
          !.pc = "disposed",
          !.timers = {t \in @ : \A f \in WatchedPaths : watcher.debounceTimers[f] # t.id},
          !.debounceTimers = [f \in WatchedPaths |-> 0]]
    /\ UNCHANGED <<cacheVars, last, graphVars, analyzerVars, search, config>>

NextWatcher ==
    \/ Tick
    \/ \E path \in WatchedPaths : HandleFileChange(path)
    \/ \E t \in watcher.timers : TimerFired(t)
    \/ Dispose

SpecWatcher == InitWatcher /\ [][NextWatcher]_vars

-----------------------------------------------------------------------------
(* History of the stand-alone cache *)

SeqRemove(s, k) == SelectSeq(s, LAMBDA x : x # k)

Touch(s, k) == Append(SeqRemove(s, k), k)

Restrict(s, keys) == SelectSeq(s, LAMBDA x : x \in keys)

-----------------------------------------------------------------------------
(* The stand-alone cache: any sequence of calls on one IndexCache *)

\* the keys and prefixes tried: the empty string, a key, an extension of it, another key
CacheKeys == {<<>>, <<"a">>, <<"a", "b">>, <<"b">>}

CacheValues == {"v1", "v2"}

NoCall == [op |-> "none", key |-> <<>>, val |-> Null, ret |-> Null,
           before |-> <<>>, lru |-> Null, oldest |-> Null]

Call(op, k, v, ret) ==
    [op |-> op, key |-> k, val |-> v, ret |-> ret, before |-> cache,
     lru |-> IF recency = <<>> THEN Null ELSE Head(recency),
     oldest |-> IF inserted = <<>> THEN Null ELSE Head(inserted)]

InitCache ==
    /\ cache = <<>>
    /\ maxSize \in 0..MaxCap
    /\ hung = FALSE
    /\ last = NoCall
    /\ recency = <<>>
    /\ inserted = <<>>
    /\ live = [k \in CacheKeys |-> Null]
    /\ ws = NoWorkspace
    /\ moduleGraph = <<>>
    /\ AnalyzerUnused

CallGet(k) ==
    /\ ~hung
    /\ UNCHANGED <<graphVars, analyzerVars>>
    /\ LET r == IndexCache_get(cache, k)
       IN  /\ cache' = r.cache
           /\ last' = Call("get", k, Null, r.ret)
           /\ recency' = IF MapHas(cache, k) THEN Touch(recency, k) ELSE recency
    /\ UNCHANGED <<maxSize, hung, inserted, live>>
    /\ UNCHANGED sideVars

CallSet(k, v) ==
    /\ ~hung
    /\ UNCHANGED <<graphVars, analyzerVars>>
    /\ LET r == IndexCache_set(cache, maxSize, k, v)
           \* the keys that were stored before the call and still are
           kept == (MapKeys(cache) \cap MapKeys(r.cache)) \ {k}
           \* k is inserted unless it stayed in the Map through the call
           stayed == MapHas(cache, k) /\ MapHas(EvictLoop(cache, maxSize).cache, k)
       IN  IF r.hang
           THEN /\ hung' = TRUE
                /\ last' = Call("set", k, v, "hang")
                /\ UNCHANGED <<cache, recency, inserted, live>>
           ELSE /\ hung' = FALSE
                /\ cache' = r.cache
                /\ last' = Call("set", k, v, "ok")
                /\ recency' = IF stayed THEN Restrict(recency, kept \cup {k})
                                        ELSE Append(Restrict(recency, kept), k)
                /\ inserted' = IF stayed THEN Restrict(inserted, kept \cup {k})
                                         ELSE Append(Restrict(inserted, kept), k)
                /\ live' = [x \in CacheKeys |->
                                IF x = k THEN v
                                ELSE IF x \in MapKeys(r.cache) THEN live[x] ELSE Null]
    /\ UNCHANGED maxSize
    /\ UNCHANGED sideVars

CallHas(k) ==
    /\ ~hung
    /\ UNCHANGED <<graphVars, analyzerVars>>
    /\ last' = Call("has", k, Null, IndexCache_has(cache, k))
    /\ UNCHANGED <<cache, maxSize, hung, recency, inserted, live>>
    /\ UNCHANGED sideVars

CallDelete(k) ==
    /\ ~hung
    /\ UNCHANGED <<graphVars, analyzerVars>>
    /\ LET r == IndexCache_delete(cache, k)
       IN  /\ cache' = r.cache
           /\ last' = Call("delete", k, Null, r.ret)
    /\ recency' = SeqRemove(recency, k)
    /\ inserted' = SeqRemove(inserted, k)
    /\ live' = [live EXCEPT ![k] = Null]
    /\ UNCHANGED <<maxSize, hung>>
    /\ UNCHANGED sideVars

CallInvalidateByPrefix(p) ==
    /\ ~hung
    /\ UNCHANGED <<graphVars, analyzerVars>>
    /\ cache' = IndexCache_invalidateByPrefix(cache, p)
    /\ last' = Call("invalidateByPrefix", p, Null, Null)
    /\ recency' = SelectSeq(recency, LAMBDA x : ~StartsWith(x, p))
    /\ inserted' = SelectSeq(inserted, LAMBDA x : ~StartsWith(x, p))
    /\ live' = [x \in CacheKeys |-> IF StartsWith(x, p) THEN Null ELSE live[x]]
    /\ UNCHANGED <<maxSize, hung>>
    /\ UNCHANGED sideVars

CallClear ==
    /\ ~hung
    /\ UNCHANGED <<graphVars, analyzerVars>>
    /\ cache' = IndexCache_clear(cache)
    /\ last' = Call("clear", <<>>, Null, Null)
    /\ recency' = <<>>
    /\ inserted' = <<>>
    /\ live' = [x \in CacheKeys |-> Null]
    /\ UNCHANGED <<maxSize, hung>>
    /\ UNCHANGED sideVars

NextCache ==
    \/ \E k \in CacheKeys : CallGet(k)
    \/ \E k \in CacheKeys, v \in CacheValues : CallSet(k, v)
    \/ \E k \in CacheKeys : CallHas(k)
    \/ \E k \in CacheKeys : CallDelete(k)
    \/ \E p \in CacheKeys : CallInvalidateByPrefix(p)
    \/ CallClear

SpecCache == InitCache /\ [][NextCache]_vars

-----------------------------------------------------------------------------
(* Claims about the cache *)

\* C1: whatever calls were made, the cache never stores more than maxSize entries.
C1_SizeBounded == Len(cache) <= maxSize

\* a set has just filled the cache to its capacity
C1_Witness == last.op = "set" /\ last.ret = "ok" /\ Len(cache) = maxSize /\ maxSize = MaxCap

\* a set of a key that is not stored, on a cache that holds maxSize entries, has returned
FullInsert ==
    /\ last.op = "set"
    /\ last.ret = "ok"
    /\ ~MapHas(last.before, last.key)
    /\ Len(last.before) = maxSize

\* C2: a set of a new key on a full cache evicts exactly one entry, the one whose
\* latest insertion or get hit is oldest; the other entries stay.
C2_EvictsLeastRecentlyUsed ==
    FullInsert =>
        /\ MapKeys(last.before) \ MapKeys(cache) = {last.lru}
        /\ MapKeys(cache) = (MapKeys(last.before) \ {last.lru}) \cup {last.key}

\* the evicted entry is not the one inserted first: a get had protected that one
C2_Witness ==
    /\ FullInsert
    /\ maxSize = MaxCap
    /\ last.lru # last.oldest
    /\ MapHas(cache, last.oldest)

\* C3: get returns the value of the latest set of the key that is still stored, null
\* when there is none, and a miss leaves the cache as it was.
C3_GetReturnsLatestSet ==
    last.op = "get" =>
        /\ last.ret = live[last.key]
        /\ last.ret = Null => cache = last.before

\* a get hit on a key that was set twice, and a get miss on a key that was evicted
C3_Witness ==
    /\ last.op = "get"
    /\ last.ret = "v2"
    /\ Len(cache) > 1
    /\ cache # last.before

\* C4: invalidateByPrefix removes the entries whose key starts with the prefix and
\* no other; the remaining entries keep their value and their order.
C4_InvalidateByPrefixFrame ==
    last.op = "invalidateByPrefix" =>
        /\ \A k \in MapKeys(last.before) : MapHas(cache, k) <=> ~StartsWith(k, last.key)
        /\ \A i \in 1..Len(cache) :
              \E j \in 1..Len(last.before) : last.before[j] = cache[i]
        /\ \A i, j \in 1..Len(cache) :
              i < j => MapIndex(last.before, cache[i].key) < MapIndex(last.before, cache[j].key)

\* a proper prefix removed two entries and left one that does not match
C4_Witness ==
    /\ last.op = "invalidateByPrefix"
    /\ last.key = <<"a">>
    /\ Len(last.before) = 3
    /\ Len(cache) = 1

-----------------------------------------------------------------------------
(* Claims about the module graph and the scope of a search *)

Imports(g, a, b) == GraphHas(g, a) /\ b \in GraphGet(g, a).imports

\* C8: getAccessibleModules of a module of the graph is the module and the modules
\* whose imports name it, and no module that only reaches it over several imports.
C8_AccessibleIsOneHop ==
    last.op = "getAccessibleModules" =>
        last.ret = {last.name} \cup {m \in GraphNames(moduleGraph) : Imports(moduleGraph, m, last.name)}

\* AppModule imports UserModule, UserModule imports BillingModule, AppModule does not
\* import BillingModule, and the modules that can access BillingModule were asked for
C8_Witness ==
    /\ last.op = "getAccessibleModules"
    /\ last.name = "BillingModule"
    /\ Imports(moduleGraph, "AppModule", "UserModule")
    /\ Imports(moduleGraph, "UserModule", "BillingModule")
    /\ ~Imports(moduleGraph, "AppModule", "BillingModule")
    /\ last.ret = {"BillingModule", "UserModule"}

\* the module to which the program maps the file
Owner(g, path) == getModuleForFile(g, path).name

\* C10: a scoped search from a file of module M returns usages only from files of M
\* and of modules that import M, so none from a file of a module that does not import M.
C10_ScopeExcludesOtherModules ==
    (last.op = "findUsages" /\ last.scoping /\ last.module # Null) =>
        \A f \in last.ret :
            \/ Owner(moduleGraph, f) = last.module
            \/ Imports(moduleGraph, Owner(moduleGraph, f), last.module)

-----------------------------------------------------------------------------
(* Claims about the analyzer *)

InitBuildCompleted == isInitialized /\ initPromise = "resolved" /\ builds[0].pc = "idle"

\* C5: once a query has arrived the first build has been started exactly once, the
\* queries that arrive during it wait for it, and a query looks its key up only
\* after that build has completed.
C5_InitBuildOnce ==
    /\ counts.initBuilds = IF counts.queries > 0 THEN 1 ELSE 0
    /\ builds[0].pc # "idle" => initPromise = "pending" /\ ~isInitialized
    /\ \A q \in 1..Len(queries) :
        /\ (queries[q].pc = "awaitInit" /\ builds[0].pc # "idle") => queries[q].wait = "init"
        /\ queries[q].pc \in {"resolving", "searching"} => InitBuildCompleted
    /\ last.op \in {"miss", "queryDone", "hang"} => InitBuildCompleted

\* a findUsages and a findDefinition call both wait for the one build in flight
C5_Witness ==
    /\ Len(queries) = 2
    /\ queries[1].kind # queries[2].kind
    /\ \A q \in 1..2 : queries[q].pc = "awaitInit" /\ queries[q].wait = "init"
    /\ builds[0].pc = "parsing"
    /\ counts.initBuilds = 1

\* C6: when rebuildModuleGraph finishes, whatever the outcome of the build, no entry
\* that was in the cache when the rebuild started is still there.
C6_RebuildClearsCache ==
    last.op = "rebuildModuleGraph" => last.stale \cap MapKeys(cache) = {}

\* C7: invalidateFile(f) removes the entries stored for queries on f, leaves the
\* entries stored for queries on other files, and leaves the module graph alone.
C7_InvalidateFileExact ==
    last.op = "invalidateFile" =>
        /\ cache = SelectSeq(last.before, LAMBDA e : e.value.file # last.file)
        /\ moduleGraph = last.graphBefore

Symmetric(g) ==
    \A a, b \in GraphNames(g) :
        (b \in GraphGet(g, a).importedBy) <=> (a \in GraphGet(g, b).imports)

\* C9: when a buildGraph has completed, importedBy is the transpose of imports over
\* the nodes of the graph.
C9_ImportedByIsTranspose ==
    (last.op \in {"doInitialize", "rebuildModuleGraph"} /\ last.ok) => Symmetric(moduleGraph)

-----------------------------------------------------------------------------
(* Claims about the search *)

\* the identifier that a usage returned stands for
IdOf(u) == ws.text[u.file].ids[u.at]

\* the type with which the receiver of the identifier is declared, or None
ReceiverType(u) ==
    IF IdOf(u).decl = 0 THEN None ELSE ws.text[u.file].decls[IdOf(u).decl].type

\* C11: a search with container type A returns no occurrence whose receiver is
\* declared with another type B.
C11_NoOtherReceiverType ==
    (search.pc = "done" /\ search.containerClass # None) =>
        \A k \in 1..Len(search.ret) :
            ReceiverType(search.ret[k]) \notin (Types \ {search.containerClass})

\* the identifiers that declare the symbol: the name of a class, method, function,
\* variable, property or parameter declaration, of a variable or parameter declared
\* by destructuring, and the key of an object literal
DeclarationSites == TestedParents \cup {"BindingElement"}

\* C12: no usage returned is a declaration site of the symbol.
C12_NoDeclarationSite ==
    search.pc = "done" =>
        \A k \in 1..Len(search.ret) : IdOf(search.ret[k]).parent \notin DeclarationSites

\* C13: when the occurrence asked about is a property access, no container name is
\* given and the type of the receiver is not resolved, no candidate file is searched
\* and the result is empty.
C13_UnresolvedAccessAborts ==
    (/\ search.pc \in {"batch", "done"}
     /\ ws.text[search.query.file].ids[search.query.at].parent = "PropertyAccessExpression"
     /\ search.query.containerClassName = None
     /\ search.containerClass = None)
    => (search.searched = {} /\ search.ret = <<>>)

\* the order of the list: by path, then by line, and on one line by position
Before(u, v) ==
    \/ compareUsages(u, v) < 0
    \/ compareUsages(u, v) = 0 /\ u.at < v.at

\* the usages of the files of the search that could be read
Found ==
    UNION {Range(searchInFile(f, ws.text[f], search.containerClass)) :
              f \in Range(search.files) \ ws.unreadable}

\* C14: the list returned is ordered by path and line, and is the one ordered list of
\* the usages found, whatever the order in which the reads of a batch completed.
C14_SortedWhateverTheOrder ==
    (search.pc = "done" /\ search.searched # {}) =>
        /\ \A k \in 1..(Len(search.ret) - 1) : Before(search.ret[k], search.ret[k + 1])
        /\ Range(search.ret) = Found

\* more files than one batch holds, reads that completed out of order, and a result
C14_Witness ==
    /\ search.pc = "done"
    /\ Len(search.files) > CONCURRENCY
    /\ search.outOfOrder
    /\ Len(search.ret) >= CONCURRENCY

\* the usages returned that lie in the file
UsagesIn(f) == SelectSeq(search.ret, LAMBDA u : u.file = f)

\* C15: a file that cannot be read contributes nothing, every other candidate file is
\* searched and contributes its matches, and the search does not throw.
C15_ReadFailureIsLocal ==
    /\ search.pc # "threw"
    /\ (search.pc = "done" /\ search.searched # {}) =>
        /\ search.searched = Range(search.files)
        /\ \A f \in search.searched :
            UsagesIn(f) = IF f \in ws.unreadable THEN <<>>
                          ELSE searchInFile(f, ws.text[f], search.containerClass)

\* a file could not be read, and the search returned usages of another file
C15_Witness ==
    /\ search.pc = "done"
    /\ search.failed # {}
    /\ search.ret # <<>>
    /\ \A k \in 1..Len(search.ret) : search.ret[k].file \notin search.failed

\* the entries other than k, in the order they had
Without(m, k) == SelectSeq(m, LAMBDA e : e.key # k)

\* C17: has(k) leaves the store and so the next entry to evict as they were, delete(k)
\* leaves the other entries in the order they had, and both return whether k was stored.
C17_HasAndDeleteKeepOrder ==
    /\ last.op = "has" =>
          /\ cache = last.before
          /\ last.ret = (\E i \in 1..Len(last.before) : last.before[i].key = last.key)
    /\ last.op = "delete" =>
          /\ cache = Without(last.before, last.key)
          /\ last.ret = (\E i \in 1..Len(last.before) : last.before[i].key = last.key)

\* the oldest of three entries was deleted: two entries stay, and a has on a full
\* store is reached too
C17_Witness ==
    /\ last.op = "delete"
    /\ last.ret = TRUE
    /\ Len(last.before) = MaxCap
    /\ last.before[1].key = last.key
    /\ Len(cache) = MaxCap - 1

\* C18: a findUsages call that read enableModuleScoping as false returns the usages
\* found over every eligible file of the workspace.
C18_UnscopedSearchesEverything ==
    (last.op = "queryDone" /\ last.kind = "usages" /\ ~last.enableModuleScoping) =>
        last.ret = searchUsages(ws, NoScope)

\* what a finished build leaves, for each content n.module.ts has had or gets
CompleteGraphs == {buildGraph(ws.moduleFiles, AnalyzerWorkspace(ni).content) : ni \in NImports}

\* C19: the graph a findUsages call reads for its scope is the complete result of a
\* finished build.
C19_ReadsCompleteGraph ==
    last.op = "readGraph" => last.graph \in CompleteGraphs

\* C20: when a query that missed the cache returns, the cache holds what it returns
\* under the key of the query.
C20_MissStoresResult ==
    (last.op = "queryDone" /\ ~last.hit) =>
        LET cacheKey == CacheKey(last.kind, last.file, 1, 0)
        IN  /\ MapHas(cache, cacheKey)
            /\ MapGet(cache, cacheKey).ret = last.ret

\* the names of the directories on the way to the file
DirSegments(path) == SelectSeq(SubSeq(path, 1, LastSep(path)), LAMBDA t : t # Sep)

\* the directory of the module file is that of the file or one above it
IsAtOrAbove(moduleFile, path) ==
    LET m == DirSegments(moduleFile)
        d == DirSegments(path)
    IN  Len(m) <= Len(d) /\ SubSeq(d, 1, Len(m)) = m

\* the name of the first node of the positions, in graph iteration order
FirstOf(positions) ==
    moduleGraph[CHOOSE i \in positions : \A j \in positions : i <= j].name

EligibleFiles == {f \in ws.files : \A i \in 1..Len(DirSegments(f)) :
                                     DirSegments(f)[i] \notin ExcludedDirs}

\* C22: with scoping enabled and no module for the file, findUsages returns what the
\* search over every eligible file of the workspace finds, as with scoping disabled.
C22_NoModuleSearchesEverything ==
    (last.op = "findUsages" /\ last.scoping /\ last.module = Null) =>
        /\ last.ret = {f \in EligibleFiles : f \in ws.uses}
        /\ last.ret = findUsages(moduleGraph, ws, last.file, FALSE)

\* /lib/util.ts has no module: the scoped query finds the usages in the files of every
\* module, and none in the built file under dist
C22_Witness ==
    /\ last.op = "findUsages"
    /\ last.scoping
    /\ last.module = Null
    /\ last.file = UtilFile
    /\ moduleGraph # <<>>
    /\ {UserServiceFile, BillingServiceFile, UtilFile} \subseteq last.ret
    /\ BuiltFile \in ws.uses \ last.ret

\* C23: every query that was started returns (or throws), whatever the capacity the
\* cache was constructed with.
C23_EveryQueryReturns == (queries # <<>>) ~> (queries = <<>>)

\* C24: a findUsages query returns the matches of every file of its search that is
\* readable when it returns, also when an earlier identical query could not read it.
C24_ReadableFileIsSearched ==
    (last.op = "queryDone" /\ last.kind = "usages") =>
        {f \in findUsages(moduleGraph, [ws EXCEPT !.unreadable = {}], last.file,
                          last.enableModuleScoping) : f \notin ws.unreadable}
            \subseteq last.ret

\* a set that returned, of a key that was stored when it was called
Overwrite == last.op = "set" /\ last.ret = "ok" /\ MapHas(last.before, last.key)

\* C25: after set(k, v) of a stored key, k is the most recently used entry: it is the
\* last of the entries in the order eviction follows.
C25_OverwriteIsAUse ==
    Overwrite => cache[Len(cache)].key = last.key

\* C26: set(k, v) of a stored key removes no other entry.
C26_OverwriteKeepsOthers ==
    Overwrite => MapKeys(last.before) \subseteq MapKeys(cache)

\* C27: a query issued after an invalidation of its file, or after the cache clear of a
\* rebuild, does not return a value computed by a query that missed the cache before
\* that invalidation and stored its result after it.
C27_NoResultAcrossInvalidation ==
    (last.op = "queryDone" /\ last.hit) => ~last.crossed

\* C28: once every change of a file has been processed, a findUsages query returns what
\* a search of the workspace as it is returns.
C28_ReturnsFreshUsages ==
    (last.op = "queryDone" /\ last.kind = "usages" /\ debounceTimers = {}) =>
        last.ret = findUsages(moduleGraph, ws, last.file, last.enableModuleScoping)

\* the buildGraph calls that have not returned
InFlight == {b \in DOMAIN builds : builds[b].pc # "idle"}

\* C29: at most one buildGraph call is in flight on the module graph.
C29_OneBuildAtATime == Cardinality(InFlight) <= 1

\* C30: a findUsages or findDefinition call made after the first build failed starts a
\* new build.
C30_FailedBuildIsRetried ==
    [][(initPromise = "rejected" /\ counts'.queries = counts.queries + 1)
            => (initPromise' = "pending" /\ builds'[0].pc # "idle")]_vars

-----------------------------------------------------------------------------
(* Claims about the watcher *)

TimersOf(path) == {t \in watcher.timers : t.path = path}

\* what the events of the path have led to downstream
Processed(path) == watcher.rebuilds[path] + watcher.invalidations[path]

\* C16: a path has at most one pending timer, due 300 ms after its last event whatever
\* happened to other paths, and every burst of events of the path that are less than
\* 300 ms apart has led, or will lead through that timer, to exactly one rebuild (for a
\* module file) or invalidation (for another file).
C16_DebouncedPerPath ==
    \A path \in WatchedPaths :
        /\ Cardinality(TimersOf(path)) <= 1
        /\ \A t \in TimersOf(path) :
              /\ t.id = watcher.debounceTimers[path]
              /\ t.due = Ms(watcher.lastEvent[path]) + DEBOUNCE_MS
        /\ Includes(path, <<"node_modules">>) => TimersOf(path) = {} /\ Processed(path) = 0
        /\ (watcher.pc = "on" /\ ~Includes(path, <<"node_modules">>)) =>
              Processed(path) + Cardinality(TimersOf(path)) = watcher.bursts[path]
        /\ watcher.pc = "disposed" => TimersOf(path) = {}
        /\ watcher.rebuilds[path] > 0 => EndsWith(path, ModuleSuffix)
        /\ watcher.invalidations[path] > 0 => ~EndsWith(path, ModuleSuffix)

\* three events of one burst for a file, with an event for the module file among
\* them, have led to one invalidation
C16_Witness ==
    /\ watcher.events[AFile] >= 2
    /\ watcher.bursts[AFile] = 1
    /\ watcher.invalidations[AFile] = 1
    /\ watcher.events[NModuleFile] >= 1
    /\ watcher.lastEvent[NModuleFile] > 0
    /\ watcher.lastEvent[NModuleFile] < watcher.lastEvent[AFile]

=============================================================================
